---- MODULE Spec2Model ----
(***************************************************************************)
(* A model of speedy-xml's streaming XML writer (src/src/writer.rs).       *)
(*                                                                         *)
(* The writer owns a byte sink and one packed u32, depth_and_flags: bit 0  *)
(* is the tag-open flag, bit 1 the empty-tag flag, the bits above are the  *)
(* nesting depth.  Every public method is one action.  A method body is    *)
(* translated as a composition of steps over a "machine" record that       *)
(* carries the writer's fields and the pending result, so that `?` (early  *)
(* return on error) is the rule "a step does nothing once err # Ok".       *)
(*                                                                         *)
(* Bytes are one-character strings; NUL stands for the byte 0x00.          *)
(***************************************************************************)
EXTENDS Integers, Sequences, FiniteSets, TLC

VARIABLES
    depth_and_flags,  \* Writer.depth_and_flags (u32)
    out,              \* the bytes the sink has accepted so far
    flushed_len,      \* Len(out) when the sink's flush was last invoked
    omit_comments,    \* Options.omit_comments
    sink_faulty,      \* whether the sink may fail a write_all / flush
    build,            \* "any" until an overflow shows the build: "debug" | "release"
    phase,            \* "live" | "finished" (finish consumed the writer) | "panicked"
    calls,            \* number of calls so far that passed their validation
    last,             \* the last call: [op, arg, res, ops], ops being the
                      \* number of sink operations it issued
    pre,              \* the writer as it was before the last call
    recentOpen,       \* the most recent successful call other than an attribute
                      \* write was write_start / write_empty
    pendingKind,      \* how the most recent such call that was not an omitted
                      \* comment started a tag: "start" | "empty", else "none"
    nStart,           \* successful write_start calls so far
    nEnd,             \* successful write_end calls so far
    endAtZero,        \* some write_end was issued with no element open
    replay            \* the round trip under way: [on, input, events]

vars == <<depth_and_flags, out, flushed_len, omit_comments, sink_faulty, build,
          phase, calls, last, pre, recentOpen, pendingKind, nStart, nEnd,
          endAtZero, replay>>

----------------------------------------------------------------------------
(* Bounds of the model. *)

MaxCalls == 3
MaxValCalls == 2
MaxIoCalls == 2
MaxPieces == 2
MaxSinkOps == 4
MaxDeepCalls == 2

(* Program constants. *)

DepthMod == 1073741824
TagOpenBit == 1
EmptyTagBit == 2
DepthUnit == 4

NUL == "NUL"
DQ == "\""
SQ == "'"

----------------------------------------------------------------------------
(* Option<&str> *)

None == [some |-> FALSE, val |-> <<>>]
Some(s) == [some |-> TRUE, val |-> s]

(* AttributeQuote as u8 *)
QuoteByte(q) == IF q = "Double" THEN DQ ELSE SQ

RECURSIVE Flatten(_)
Flatten(ss) == IF ss = <<>> THEN <<>> ELSE Head(ss) \o Flatten(Tail(ss))

(* memchr::memmem::find(text, needle).is_some() *)
Contains(text, needle) ==
    \E i \in 1..(Len(text) - Len(needle) + 1) :
        SubSeq(text, i, i + Len(needle) - 1) = needle

(* memchr::memchr2(a, b, text): index of the first a or b, 0 for None *)
memchr2(a, b, text) ==
    LET hits == {i \in DOMAIN text : text[i] = a \/ text[i] = b}
    IN IF hits = {} THEN 0 ELSE CHOOSE i \in hits : \A j \in hits : i <= j

----------------------------------------------------------------------------
(* The byte classifiers of lut.rs and the escapers of escape.rs are not    *)
(* among the sources; they are modelled from the specification's           *)
(* description of their interface.                                         *)

NameBytes == {"a", "b", "c", "d", "p", "t", "v", "x", "1", "_", "-", "."}

is_invalid_name(b) == b \notin NameBytes

is_invalid_attribute_name(b) == b \in {NUL, " ", DQ, SQ, "<", ">", "/", "="}

EscapeByte(b) ==
    CASE b = "<" -> <<"&", "l", "t", ";">>
      [] b = ">" -> <<"&", "g", "t", ";">>
      [] b = "&" -> <<"&", "a", "m", "p", ";">>
      [] b = DQ  -> <<"&", "q", "u", "o", "t", ";">>
      [] b = SQ  -> <<"&", "a", "p", "o", "s", ";">>
      [] OTHER   -> <<b>>

content_escape(text) == Flatten([i \in DOMAIN text |-> EscapeByte(text[i])])

comment_escape(text) ==
    Flatten([i \in DOMAIN text |->
        IF text[i] = "-" /\ i > 1 /\ text[i - 1] = "-"
        THEN <<"&", "#", "4", "5", ";">>
        ELSE <<text[i]>>])

----------------------------------------------------------------------------
(* The machine: the writer's fields during one call. *)

Machine(fail_at, wrap) ==
    [daf |-> depth_and_flags, out |-> out, flushed |-> flushed_len,
     err |-> "Ok", ops |-> 0, fail_at |-> fail_at, wrap |-> wrap, ovf |-> FALSE]

(* return Err(e) *)
Fail(m, e) == IF m.err # "Ok" THEN m ELSE [m EXCEPT !.err = e]

(* self.writer.write_all(bytes)?  A failing write_all is taken to have     *)
(* written nothing.                                                        *)
write_all(m, bytes) ==
    IF m.err # "Ok" THEN m
    ELSE IF m.ops + 1 = m.fail_at THEN [m EXCEPT !.ops = @ + 1, !.err = "Io"]
    ELSE [m EXCEPT !.ops = @ + 1, !.out = @ \o bytes]

(* self.writer.flush() *)
sink_flush(m) ==
    IF m.err # "Ok" THEN m
    ELSE IF m.ops + 1 = m.fail_at THEN [m EXCEPT !.ops = @ + 1, !.err = "Io"]
    ELSE [m EXCEPT !.ops = @ + 1, !.flushed = Len(m.out)]

(* depth_and_flags is a u32.  It is kept as the pair [hi, lo] of its upper  *)
(* 30 bits (the depth) and its lower 2 bits (the flags), its value being   *)
(* hi * 4 + lo.                                                            *)
U32(hi, lo) == [hi |-> hi, lo |-> lo]

(* self.depth_and_flags += k   (u32: panics with overflow checks, wraps    *)
(* without)                                                                *)
add_u32(m, k) ==
    IF m.err # "Ok" THEN m
    ELSE LET s  == m.daf.lo + k
             hi == m.daf.hi + (s \div DepthUnit)
             lo == s % DepthUnit
         IN IF hi >= DepthMod
            THEN IF m.wrap
                 THEN [m EXCEPT !.daf = U32(hi % DepthMod, lo), !.ovf = TRUE]
                 ELSE [m EXCEPT !.err = "Panic", !.ovf = TRUE]
            ELSE [m EXCEPT !.daf = U32(hi, lo)]

(* self.depth_and_flags -= k *)
sub_u32(m, k) ==
    IF m.err # "Ok" THEN m
    ELSE LET d      == m.daf.lo - k
             borrow == IF d < 0 THEN ((0 - d) + DepthUnit - 1) \div DepthUnit ELSE 0
             lo     == d + borrow * DepthUnit
             hi     == m.daf.hi - borrow
         IN IF hi < 0
            THEN IF m.wrap
                 THEN [m EXCEPT !.daf = U32(hi + DepthMod, lo), !.ovf = TRUE]
                 ELSE [m EXCEPT !.err = "Panic", !.ovf = TRUE]
            ELSE [m EXCEPT !.daf = U32(hi, lo)]

(* self.depth_and_flags & 1 > 0 *)
TagOpen(daf) == (daf.lo % 2) = TagOpenBit

(* self.depth_and_flags & 0b10 > 0 *)
in_empty_tag(daf) == (daf.lo \div EmptyTagBit) = 1

Depth(daf) == daf.hi

AnyByte(s, P(_)) == \E i \in DOMAIN s : P(s[i])

----------------------------------------------------------------------------
(* The methods of Writer, each a function from machine to machine. *)

(* ensure_tag_closed terminating every pending tag with `>` *)
ensure_tag_closed_plain(m) ==
    IF m.err # "Ok" THEN m
    ELSE IF TagOpen(m.daf)
         THEN IF in_empty_tag(m.daf)
              THEN add_u32(write_all(m, <<">">>), 1)
              ELSE add_u32(write_all(m, <<">">>), 3)
         ELSE m

(* ensure_tag_closed adding the same amount for both kinds of tag *)
ensure_tag_closed_uniform(m) ==
    IF m.err # "Ok" THEN m
    ELSE IF TagOpen(m.daf)
         THEN IF in_empty_tag(m.daf)
              THEN add_u32(write_all(m, <<"/", ">">>), 3)
              ELSE add_u32(write_all(m, <<">">>), 3)
         ELSE m

ensure_tag_closed(m) ==
    IF m.err # "Ok" THEN m
    ELSE IF TagOpen(m.daf)
         THEN IF in_empty_tag(m.daf)
              THEN add_u32(write_all(m, <<"/", ">">>), 1)
              ELSE add_u32(write_all(m, <<">">>), 3)
         ELSE m

(* `<`, optional `prefix:`, name; shared by write_start and write_empty *)
write_open(m, prefix, name) ==
    LET m1 == write_all(m, <<"<">>)
        m2 == IF prefix.some
              THEN write_all(write_all(m1, prefix.val), <<":">>)
              ELSE m1
    IN write_all(m2, name)

(* write_start closing the pending tag before it validates the name *)
write_start_close_first(m, prefix, name) ==
    IF m.err # "Ok" THEN m
    ELSE IF prefix.some /\ AnyByte(prefix.val, is_invalid_name)
         THEN Fail(m, "InvalidElementPrefix")
    ELSE LET m1 == ensure_tag_closed(m)
         IN IF AnyByte(name, is_invalid_name)
            THEN Fail(m1, "InvalidElementName")
            ELSE write_open(add_u32(m1, 1), prefix, name)

(* write_start setting the tag-open flag once the tag's bytes are written *)
write_start_flag_last(m, prefix, name) ==
    IF m.err # "Ok" THEN m
    ELSE IF prefix.some /\ AnyByte(prefix.val, is_invalid_name)
         THEN Fail(m, "InvalidElementPrefix")
    ELSE IF AnyByte(name, is_invalid_name)
         THEN Fail(m, "InvalidElementName")
    ELSE add_u32(write_open(ensure_tag_closed(m), prefix, name), 1)

write_start(m, prefix, name) ==
    IF m.err # "Ok" THEN m
    ELSE IF prefix.some /\ AnyByte(prefix.val, is_invalid_name)
         THEN Fail(m, "InvalidElementPrefix")
    ELSE IF AnyByte(name, is_invalid_name)
         THEN Fail(m, "InvalidElementName")
    ELSE write_open(add_u32(ensure_tag_closed(m), 1), prefix, name)

(* write_empty validating the prefix as write_start does *)
write_empty_prefix_checked(m, prefix, name) ==
    IF m.err # "Ok" THEN m
    ELSE IF prefix.some /\ AnyByte(prefix.val, is_invalid_name)
         THEN Fail(m, "InvalidElementPrefix")
    ELSE IF AnyByte(name, is_invalid_name)
         THEN Fail(m, "InvalidElementName")
    ELSE write_open(add_u32(ensure_tag_closed(m), 3), prefix, name)

write_empty(m, prefix, name) ==
    IF m.err # "Ok" THEN m
    ELSE IF AnyByte(name, is_invalid_name)
         THEN Fail(m, "InvalidElementName")
    ELSE write_open(add_u32(ensure_tag_closed(m), 3), prefix, name)

(* write_raw_attribute without its check of the tag-open flag *)
write_raw_attribute_anywhere(m, name, quote, value) ==
    IF m.err # "Ok" THEN m
    ELSE IF AnyByte(name, is_invalid_attribute_name)
         THEN Fail(m, "InvalidAttributeName")
    ELSE write_all(m, <<" ">> \o name \o <<"=", QuoteByte(quote)>>
                      \o value \o <<QuoteByte(quote)>>)

write_raw_attribute(m, name, quote, value) ==
    IF m.err # "Ok" THEN m
    ELSE IF ~TagOpen(m.daf)
         THEN Fail(m, "AttributeOutsideTag")
    ELSE IF AnyByte(name, is_invalid_attribute_name)
         THEN Fail(m, "InvalidAttributeName")
    ELSE IF AnyByte(name, LAMBDA b : b \in {NUL, QuoteByte(quote)})
         THEN Fail(m, "InvalidAttributeValue")
    ELSE LET q  == <<QuoteByte(quote)>>
             m1 == write_all(m, <<" ">>)
             m2 == write_all(m1, name)
             m3 == write_all(m2, <<"=">>)
             m4 == write_all(m3, q)
             m5 == write_all(m4, value)
         IN write_all(m5, q)

write_attribute(m, name, value) ==
    write_raw_attribute(m, name, "Double", content_escape(value))

write_end(m, prefix, name) ==
    IF m.err # "Ok" THEN m
    ELSE IF prefix.some /\ AnyByte(prefix.val, is_invalid_name)
         THEN Fail(m, "InvalidElementPrefix")
    ELSE IF AnyByte(name, is_invalid_name)
         THEN Fail(m, "InvalidElementName")
    ELSE LET m1 == write_all(ensure_tag_closed(m), <<"<", "/">>)
             m2 == IF prefix.some
                   THEN write_all(write_all(m1, prefix.val), <<":">>)
                   ELSE m1
             m3 == write_all(m2, name)
             m4 == write_all(m3, <<">">>)
         IN sub_u32(m4, DepthUnit)

write_raw_text_unchecked(m, text) ==
    write_all(ensure_tag_closed(m), text)

write_raw_text(m, text) ==
    IF m.err # "Ok" THEN m
    ELSE LET idx == memchr2(NUL, "<", text)
         IN IF idx # 0
            THEN IF text[idx] = "<"
                 THEN Fail(m, "ImproperlyEscaped")
                 ELSE Fail(m, "InvalidValue")
            ELSE write_raw_text_unchecked(m, text)

(* write_text writing the content without escaping it *)
write_text_unescaped(m, content) ==
    write_raw_text_unchecked(m, content)

write_text(m, content) ==
    write_raw_text_unchecked(m, content_escape(content))

write_cdata_unchecked(m, text) ==
    LET m1 == write_all(ensure_tag_closed(m),
                        <<"<", "!", "[", "C", "D", "A", "T", "A", "[">>)
        m2 == write_all(m1, text)
    IN write_all(m2, <<"]", "]", ">">>)

(* write_cdata rejecting `]]` already *)
write_cdata_strict(m, text) ==
    IF m.err # "Ok" THEN m
    ELSE IF Contains(text, <<"]", "]">>)
         THEN Fail(m, "InvalidCData")
    ELSE write_cdata_unchecked(m, text)

write_cdata(m, text) ==
    IF m.err # "Ok" THEN m
    ELSE IF Contains(text, <<"]", "]", ">">>)
         THEN Fail(m, "InvalidCData")
    ELSE write_cdata_unchecked(m, text)

write_raw_comment_unchecked(m, text) ==
    LET m1 == write_all(ensure_tag_closed(m), <<"<", "!", "-", "-">>)
        m2 == write_all(m1, text)
    IN write_all(m2, <<"-", "-", ">">>)

(* write_raw_comment writing the comment whatever omit_comments says *)
write_raw_comment_always(m, text) ==
    IF m.err # "Ok" THEN m
    ELSE IF Contains(text, <<"-", "-", ">">>)
         THEN Fail(m, "ImproperlyEscaped")
    ELSE write_raw_comment_unchecked(m, text)

write_raw_comment(m, text) ==
    IF m.err # "Ok" THEN m
    ELSE IF Contains(text, <<"-", "-", ">">>)
         THEN Fail(m, "ImproperlyEscaped")
    ELSE IF ~omit_comments
         THEN write_raw_comment_unchecked(m, text)
    ELSE m

(* write_comment closing the pending tag even when comments are omitted *)
write_comment_closing(m, content) ==
    IF m.err # "Ok" THEN m
    ELSE IF ~omit_comments
         THEN write_raw_comment_unchecked(m, comment_escape(content))
    ELSE ensure_tag_closed(m)

write_comment(m, content) ==
    IF m.err # "Ok" THEN m
    ELSE IF ~omit_comments
         THEN write_raw_comment_unchecked(m, comment_escape(content))
    ELSE m

(* write_attribute_event quoting every value with `"` *)
write_attribute_event_double(m, attr) ==
    IF m.err # "Ok" THEN m
    ELSE IF ~TagOpen(m.daf)
         THEN Fail(m, "AttributeOutsideTag")
    ELSE write_all(m, <<" ">> \o attr.name \o <<"=", DQ>> \o attr.raw_value \o <<DQ>>)

write_attribute_event(m, attr) ==
    IF m.err # "Ok" THEN m
    ELSE IF ~TagOpen(m.daf)
         THEN Fail(m, "AttributeOutsideTag")
    ELSE LET q  == <<QuoteByte(attr.quote)>>
             m1 == write_all(m, <<" ">>)
             m2 == write_all(m1, attr.name)
             m3 == write_all(m2, <<"=">>)
             m4 == write_all(m3, q)
             m5 == write_all(m4, attr.raw_value)
         IN write_all(m5, q)

RECURSIVE write_attribute_events(_, _)
write_attribute_events(m, attrs) ==
    IF attrs = <<>> THEN m
    ELSE write_attribute_events(write_attribute_event(m, Head(attrs)), Tail(attrs))

(* write_event passing a text-like payload through write_raw_text's check *)
write_event_checked(m, event) ==
    IF m.err # "Ok" THEN m
    ELSE IF event.kind \in {"Start", "Empty"}
         THEN LET m1 == IF event.is_empty
                        THEN write_empty(m, event.prefix, event.name)
                        ELSE write_start(m, event.prefix, event.name)
              IN write_attribute_events(m1, event.attrs)
    ELSE IF event.kind = "End"
         THEN write_end(m, event.prefix, event.name)
    ELSE write_raw_text(m, event.text)

(* An event is [kind, prefix, name, attrs, is_empty, text]. *)
write_event(m, event) ==
    IF m.err # "Ok" THEN m
    ELSE IF event.kind \in {"Start", "Empty"}
         THEN LET m1 == IF event.is_empty
                        THEN write_empty(m, event.prefix, event.name)
                        ELSE write_start(m, event.prefix, event.name)
              IN write_attribute_events(m1, event.attrs)
    ELSE IF event.kind = "End"
         THEN write_end(m, event.prefix, event.name)
    ELSE write_all(ensure_tag_closed(m), event.text)

finish(m) == ensure_tag_closed(m)

(* flush forwarding to the sink before it terminates the pending tag *)
flush_then_close(m) == ensure_tag_closed(sink_flush(m))

flush(m) == sink_flush(ensure_tag_closed(m))

----------------------------------------------------------------------------
(* The inputs the calls are made with: a record of one set per method.     *)

Elem(prefix, name) == [prefix |-> prefix, name |-> name]

RawAttr(name, quote, value) == [name |-> name, quote |-> quote, value |-> value]

Attr(name, value) == [name |-> name, value |-> value]

AttrEv(name, quote, raw_value) ==
    [name |-> name, quote |-> quote, raw_value |-> raw_value]

(* reader::Event: [kind, prefix, name, attrs, is_empty, text] *)
TagEvent(kind, prefix, name, attrs) ==
    [kind |-> kind, prefix |-> prefix, name |-> name, attrs |-> attrs,
     is_empty |-> (kind = "Empty"), text |-> <<>>]

TextEvent(kind, text) ==
    [kind |-> kind, prefix |-> None, name |-> <<>>, attrs |-> <<>>,
     is_empty |-> FALSE, text |-> text]

(* The inputs of the structural runs: one or two well-formed arguments per *)
(* method and a few rejected ones.                                         *)
CoreInputs ==
    [ start       |-> { Elem(None, <<"a">>), Elem(None, <<"a", " ", "b">>) },
      empty       |-> { Elem(Some(<<"p">>), <<"b">>) },
      end         |-> { Elem(None, <<"a">>) },
      raw_attr    |-> { RawAttr(<<"x">>, "Single", <<"v">>) },
      attr        |-> { Attr(<<"x">>, <<"<", DQ>>) },
      raw_text    |-> { <<"t">> },
      text        |-> { <<"t", "<">> },
      cdata       |-> { <<"d">> },
      raw_comment |-> { <<"-", "-">> },
      comment     |-> { <<"-", "-", ">">> },
      event       |-> { TagEvent("Start", None, <<"a">>,
                                 << AttrEv(<<"x">>, "Single", <<"v">>) >>),
                        TagEvent("Empty", None, <<"b">>, <<>>),
                        TagEvent("End", None, <<"a">>, <<>>),
                        TextEvent("Text", <<"&", "<">>) } ]

(* The inputs of the validation runs: for every method, arguments on both  *)
(* sides of each of its checks.                                            *)
ValInputs ==
    [ start       |-> { Elem(None, <<"a">>),
                        Elem(Some(<<"p">>), <<"a">>),
                        Elem(None, <<>>),
                        Elem(None, <<"1", "a">>),
                        Elem(None, <<"a", " ", "b">>),
                        Elem(Some(<<" ">>), <<"a">>),
                        Elem(Some(<<" ">>), <<"a", " ", "b">>) },
      empty       |-> { Elem(None, <<"a">>),
                        Elem(None, <<"a", " ", "b">>),
                        Elem(Some(<<" ">>), <<"a">>),
                        Elem(Some(<<" ">>), <<"a", " ", "b">>) },
      end         |-> { Elem(None, <<"a">>),
                        Elem(None, <<"a", " ", "b">>),
                        Elem(Some(<<" ">>), <<"a">>),
                        Elem(Some(<<" ">>), <<"a", " ", "b">>) },
      raw_attr    |-> { RawAttr(<<"x">>, "Double", <<"v">>),
                        RawAttr(<<"x">>, "Single", <<DQ>>),
                        RawAttr(<<"x">>, "Double", <<"v", DQ>>),
                        RawAttr(<<"x">>, "Single", <<NUL>>),
                        RawAttr(<<"x", " ", "y">>, "Double", <<"v">>) },
      attr        |-> { Attr(<<"x">>, <<"<", DQ>>),
                        Attr(<<"x", " ", "y">>, <<"v">>) },
      raw_text    |-> { <<"t">>, <<"<">>, <<NUL>>, <<NUL, "<">>, <<"<", NUL>> },
      text        |-> { <<"t", "<">>, <<NUL>> },
      cdata       |-> { <<"]", "]">>, <<"d", "]", "]", ">">> },
      raw_comment |-> { <<"-", "-">>, <<"c", "-", "-", ">">>, <<NUL>> },
      comment     |-> { <<"-", "-", ">">> },
      event       |-> { TagEvent("Start", None, <<"a", " ">>, <<>>),
                        TagEvent("Start", None, <<"a">>,
                                 << AttrEv(<<"x", " ">>, "Double", <<"v">>) >>),
                        TagEvent("Empty", Some(<<"p">>), <<"b">>,
                                 << AttrEv(<<"x">>, "Single", <<"<", SQ>>),
                                    AttrEv(<<"y">>, "Double", <<NUL>>) >>),
                        TextEvent("Text", <<"<", NUL>>),
                        TextEvent("CData", <<"]", "]", ">">>),
                        TextEvent("Doctype", <<"<", "!", "d", ">">>),
                        TextEvent("Comment", <<"<", "!", "-", "-", "c", "-", "-", ">">>) } ]

----------------------------------------------------------------------------
(* The Reader (reader.rs) is not among the sources.  It is modelled from   *)
(* the specification as a tokenizer: it cuts the input into events whose   *)
(* text and attribute payloads are the input's own bytes, a comment, CDATA *)
(* section or doctype being kept with its delimiters; a tag may hold white *)
(* space around its attributes, which no event records.  The field `plain` *)
(* is not part of the event: it notes that a tag was written with exactly  *)
(* one space before each attribute and no other space.                     *)

RECURSIVE SkipWs(_, _)
SkipWs(s, i) == IF i <= Len(s) /\ s[i] = " " THEN SkipWs(s, i + 1) ELSE i

RECURSIVE QNameEnd(_, _)
QNameEnd(s, i) ==
    IF i <= Len(s) /\ (s[i] \in NameBytes \/ s[i] = ":")
    THEN QNameEnd(s, i + 1) ELSE i

RECURSIVE AttrNameEnd(_, _)
AttrNameEnd(s, i) ==
    IF i <= Len(s) /\ ~is_invalid_attribute_name(s[i])
    THEN AttrNameEnd(s, i + 1) ELSE i

StartsAt(s, i, t) ==
    i + Len(t) - 1 <= Len(s) /\ SubSeq(s, i, i + Len(t) - 1) = t

(* the first index >= i at which t starts in s, 0 if none *)
FindFrom(s, t, i) ==
    LET hits == {j \in i..Len(s) : StartsAt(s, j, t)}
    IN IF hits = {} THEN 0 ELSE CHOOSE j \in hits : \A k \in hits : j <= k

SplitPrefix(q) ==
    LET c == FindFrom(q, <<":">>, 1)
    IN IF c = 0 THEN [prefix |-> None, name |-> q]
       ELSE [prefix |-> Some(SubSeq(q, 1, c - 1)), name |-> SubSeq(q, c + 1, Len(q))]

Rejected == [ok |-> FALSE]

RECURSIVE ReadAttrs(_, _, _, _)
ReadAttrs(s, j, acc, plain) ==
    LET k == SkipWs(s, j)
    IN IF k > Len(s) THEN Rejected
       ELSE IF s[k] = ">"
            THEN [ok |-> TRUE, attrs |-> acc, is_empty |-> FALSE, next |-> k + 1,
                  plain |-> plain /\ k = j]
       ELSE IF s[k] = "/"
            THEN IF StartsAt(s, k, <<"/", ">">>)
                 THEN [ok |-> TRUE, attrs |-> acc, is_empty |-> TRUE, next |-> k + 2,
                       plain |-> plain /\ k = j]
                 ELSE Rejected
       ELSE IF k = j THEN Rejected
       ELSE LET ne    == AttrNameEnd(s, k)
                eq    == SkipWs(s, ne)
                v0    == SkipWs(s, eq + 1)
                close == FindFrom(s, <<s[v0]>>, v0 + 1)
            IN IF \/ ne = k
                  \/ eq > Len(s) \/ s[eq] # "="
                  \/ v0 > Len(s) \/ s[v0] \notin {DQ, SQ}
                  \/ close = 0
               THEN Rejected
               ELSE ReadAttrs(s, close + 1,
                              Append(acc, AttrEv(SubSeq(s, k, ne - 1),
                                                 IF s[v0] = DQ THEN "Double" ELSE "Single",
                                                 SubSeq(s, v0 + 1, close - 1))),
                              plain /\ k = j + 1 /\ eq = ne /\ v0 = eq + 1)

(* The event that starts at s[i], with the index after it. *)
ReadEvent(s, i) ==
    IF s[i] # "<"
    THEN LET lt == FindFrom(s, <<"<">>, i)
             e  == IF lt = 0 THEN Len(s) + 1 ELSE lt
         IN [ok |-> TRUE, next |-> e,
             ev |-> TextEvent("Text", SubSeq(s, i, e - 1)) @@ [plain |-> TRUE]]
    ELSE IF StartsAt(s, i, <<"<", "!", "-", "-">>)
    THEN LET e == FindFrom(s, <<"-", "-", ">">>, i + 4)
         IN IF e = 0 THEN Rejected
            ELSE [ok |-> TRUE, next |-> e + 3,
                  ev |-> TextEvent("Comment", SubSeq(s, i, e + 2)) @@ [plain |-> TRUE]]
    ELSE IF StartsAt(s, i, <<"<", "!", "[", "C", "D", "A", "T", "A", "[">>)
    THEN LET e == FindFrom(s, <<"]", "]", ">">>, i + 9)
         IN IF e = 0 THEN Rejected
            ELSE [ok |-> TRUE, next |-> e + 3,
                  ev |-> TextEvent("CData", SubSeq(s, i, e + 2)) @@ [plain |-> TRUE]]
    ELSE IF StartsAt(s, i, <<"<", "!">>)
    THEN LET e == FindFrom(s, <<">">>, i + 2)
         IN IF e = 0 THEN Rejected
            ELSE [ok |-> TRUE, next |-> e + 1,
                  ev |-> TextEvent("Doctype", SubSeq(s, i, e)) @@ [plain |-> TRUE]]
    ELSE IF StartsAt(s, i, <<"<", "/">>)
    THEN LET ne == QNameEnd(s, i + 2)
             gt == SkipWs(s, ne)
             q  == SplitPrefix(SubSeq(s, i + 2, ne - 1))
         IN IF ne = i + 2 \/ gt > Len(s) \/ s[gt] # ">" THEN Rejected
            ELSE [ok |-> TRUE, next |-> gt + 1,
                  ev |-> TagEvent("End", q.prefix, q.name, <<>>) @@ [plain |-> gt = ne]]
    ELSE LET ne == QNameEnd(s, i + 1)
             q  == SplitPrefix(SubSeq(s, i + 1, ne - 1))
             a  == ReadAttrs(s, ne, <<>>, TRUE)
         IN IF ne = i + 1 \/ ~a.ok THEN Rejected
            ELSE [ok |-> TRUE, next |-> a.next,
                  ev |-> TagEvent(IF a.is_empty THEN "Empty" ELSE "Start",
                                  q.prefix, q.name, a.attrs) @@ [plain |-> a.plain]]

(* Reader::next until the input ends: [ok, events] *)
RECURSIVE ReadFrom(_, _)
ReadFrom(s, i) ==
    IF i > Len(s) THEN [ok |-> TRUE, events |-> <<>>]
    ELSE LET r == ReadEvent(s, i)
         IN IF ~r.ok THEN [ok |-> FALSE, events |-> <<>>]
            ELSE LET rest == ReadFrom(s, r.next)
                 IN [ok |-> rest.ok, events |-> <<r.ev>> \o rest.events]

Reader(s) == ReadFrom(s, 1)

(* The inputs of the round trip: up to MaxPieces of these pieces in a row. *)
Pieces ==
    { <<"t">>,
      <<"<", "a", ">">>,
      <<"<", "/", "a", ">">>,
      <<"<", "b", " ", "x", "=", SQ, "v", SQ, "/", ">">>,
      <<"<", "p", ":", "a", " ", "x", "=", DQ, "v", DQ, " ", "c", "=", SQ, "d", SQ, ">">>,
      <<"<", "!", "-", "-", "c", "-", "-", ">">>,
      <<"<", "!", "[", "C", "D", "A", "T", "A", "[", "d", "]", "]", ">">>,
      <<"<", "!", "D", "O", "C", "T", "Y", "P", "E", " ", "a", ">">>,
      <<"<", "b", " ", "/", ">">>,
      <<"<", "a", " ", "x", " ", "=", " ", DQ, "v", DQ, ">">>,
      <<"<", "/", "a", " ", ">">>,
      <<"<", "a">> }

RECURSIVE DocumentsOf(_)
DocumentsOf(n) ==
    IF n = 0 THEN {<<>>}
    ELSE LET shorter == DocumentsOf(n - 1)
         IN shorter \cup {d \o q : d \in shorter, q \in Pieces}

Documents == DocumentsOf(MaxPieces)

----------------------------------------------------------------------------
(* The state machine. *)

NoCall == [op |-> "new", arg |-> <<>>, res |-> "Ok", ops |-> 0]

Snapshot ==
    [daf |-> depth_and_flags, out |-> out, kind |-> pendingKind,
     nStart |-> nStart, nEnd |-> nEnd, flushed |-> flushed_len]

InitWriter ==
    /\ depth_and_flags = U32(0, 0)
    /\ out = <<>>
    /\ flushed_len = 0
    /\ omit_comments \in BOOLEAN
    /\ build = "any"
    /\ phase = "live"
    /\ calls = 0
    /\ last = NoCall
    /\ pre = [daf |-> U32(0, 0), out |-> <<>>, kind |-> "none",
              nStart |-> 0, nEnd |-> 0, flushed |-> 0]
    /\ recentOpen = FALSE
    /\ pendingKind = "none"
    /\ nStart = 0
    /\ nEnd = 0
    /\ endAtZero = FALSE

NoReplay == [on |-> FALSE, input |-> <<>>, events |-> <<>>]

(* Writer::with_options over a sink that never fails *)
Init == InitWriter /\ sink_faulty = FALSE /\ replay = NoReplay

(* Writer::with_options over a sink that may fail *)
InitIo == InitWriter /\ sink_faulty = TRUE /\ replay = NoReplay

(* The depths the deep runs start from: the largest the 30 depth bits     *)
(* hold, the one below it, and a small one.                                *)
DeepDepths == {1, DepthMod - 2, DepthMod - 1}

(* The writer after n write_start calls, each terminated, and no other     *)
(* call, on a sink that never fails; `out` then holds the bytes the sink   *)
(* has accepted from there on.                                             *)
InitDeep ==
    /\ \E n \in DeepDepths :
         /\ depth_and_flags = U32(n, 0)
         /\ nStart = n
         /\ pre = [daf |-> U32(n, 0), out |-> <<>>, kind |-> "none",
                   nStart |-> n, nEnd |-> 0, flushed |-> 0]
    /\ out = <<>>
    /\ flushed_len = 0
    /\ omit_comments \in BOOLEAN
    /\ build = "any"
    /\ phase = "live"
    /\ calls = 0
    /\ last = NoCall
    /\ recentOpen = FALSE
    /\ pendingKind = "none"
    /\ nEnd = 0
    /\ endAtZero = FALSE
    /\ sink_faulty = FALSE
    /\ replay = NoReplay

FailPoints == IF sink_faulty THEN 0..MaxSinkOps ELSE {0}

WrapChoices == IF build = "any" THEN BOOLEAN ELSE {build = "release"}

Live(bound) == phase = "live" /\ calls < bound

StartKind(op, arg) ==
    IF op = "write_start" THEN "start"
    ELSE IF op = "write_empty" THEN "empty"
    ELSE IF op = "write_event" /\ arg.kind \in {"Start", "Empty"}
         THEN (IF arg.is_empty THEN "empty" ELSE "start")
    ELSE "none"

IsEnd(op, arg) ==
    op = "write_end" \/ (op = "write_event" /\ arg.kind = "End")

AttrOps == {"write_attribute", "write_raw_attribute"}

CommentOps == {"write_comment", "write_raw_comment"}

ValidationErrors ==
    {"InvalidElementPrefix", "InvalidElementName", "InvalidAttributeName",
     "InvalidAttributeValue", "AttributeOutsideTag", "ImproperlyEscaped",
     "InvalidCData", "InvalidValue"}

(* The writer and the observer's bookkeeping after a call that ran to m. *)
Outcome(op, arg, m) ==
    /\ depth_and_flags' = m.daf
    /\ out' = m.out
    /\ flushed_len' = m.flushed
    /\ last' = [op |-> op, arg |-> arg, res |-> m.err, ops |-> m.ops]
    /\ pre' = Snapshot
    /\ calls' = IF m.err \in ValidationErrors THEN calls ELSE calls + 1
    /\ phase' = IF m.err = "Panic" THEN "panicked"
                ELSE IF op = "finish" THEN "finished"
                ELSE phase
    /\ build' = IF m.ovf THEN (IF m.wrap THEN "release" ELSE "debug") ELSE build
    /\ recentOpen' =
         IF m.err = "Ok" /\ op \notin AttrOps
         THEN StartKind(op, arg) # "none" ELSE recentOpen
    /\ pendingKind' =
         IF m.err # "Ok" \/ op \in AttrOps THEN pendingKind
         ELSE IF op \in CommentOps /\ omit_comments THEN pendingKind
         ELSE StartKind(op, arg)
    /\ nStart' = IF m.err = "Ok" /\ StartKind(op, arg) = "start"
                 THEN nStart + 1 ELSE nStart
    /\ nEnd' = IF m.err = "Ok" /\ IsEnd(op, arg) THEN nEnd + 1 ELSE nEnd
    /\ endAtZero' = (endAtZero \/ (IsEnd(op, arg) /\ m.err \notin ValidationErrors
                                    /\ nStart = nEnd))
    /\ UNCHANGED <<omit_comments, sink_faulty>>

(* One call of method Run: the sink fails at any of its operations or at   *)
(* none, and an overflowing build either panics or wraps.                  *)
Invoke(op, arg, Run(_)) ==
    \E f \in FailPoints :
        LET m == Run(Machine(f, TRUE))
        IN IF m.ovf
           THEN \E w \in WrapChoices : Outcome(op, arg, Run(Machine(f, w)))
           ELSE Outcome(op, arg, m)

Call(op, arg, Run(_)) == Invoke(op, arg, Run) /\ UNCHANGED replay

WriteStart(In, bound) ==
    /\ Live(bound)
    /\ \E a \in In.start :
         Call("write_start", a, LAMBDA m : write_start(m, a.prefix, a.name))

WriteEmpty(In, bound) ==
    /\ Live(bound)
    /\ \E a \in In.empty :
         Call("write_empty", a, LAMBDA m : write_empty(m, a.prefix, a.name))

WriteRawAttribute(In, bound) ==
    /\ Live(bound)
    /\ \E a \in In.raw_attr :
         Call("write_raw_attribute", a,
              LAMBDA m : write_raw_attribute(m, a.name, a.quote, a.value))

WriteAttribute(In, bound) ==
    /\ Live(bound)
    /\ \E a \in In.attr :
         Call("write_attribute", a, LAMBDA m : write_attribute(m, a.name, a.value))

WriteEnd(In, bound) ==
    /\ Live(bound)
    /\ \E a \in In.end :
         Call("write_end", a, LAMBDA m : write_end(m, a.prefix, a.name))

WriteRawText(In, bound) ==
    /\ Live(bound)
    /\ \E t \in In.raw_text :
         Call("write_raw_text", t, LAMBDA m : write_raw_text(m, t))

WriteText(In, bound) ==
    /\ Live(bound)
    /\ \E t \in In.text : Call("write_text", t, LAMBDA m : write_text(m, t))

WriteCData(In, bound) ==
    /\ Live(bound)
    /\ \E t \in In.cdata : Call("write_cdata", t, LAMBDA m : write_cdata(m, t))

WriteRawComment(In, bound) ==
    /\ Live(bound)
    /\ \E t \in In.raw_comment :
         Call("write_raw_comment", t, LAMBDA m : write_raw_comment(m, t))

WriteComment(In, bound) ==
    /\ Live(bound)
    /\ \E t \in In.comment :
         Call("write_comment", t, LAMBDA m : write_comment(m, t))

WriteEvent(In, bound) ==
    /\ Live(bound)
    /\ \E e \in In.event : Call("write_event", e, LAMBDA m : write_event(m, e))

Flush(bound) ==
    /\ Live(bound)
    /\ Call("flush", <<>>, flush)

Finish ==
    /\ phase = "live"
    /\ Call("finish", <<>>, finish)

(* reader_writer_roundtrip: Writer::new over a Cursor, and the events of a  *)
(* Reader that accepted the input.                                         *)
InitRoundTrip ==
    /\ InitWriter
    /\ ~omit_comments
    /\ sink_faulty = FALSE
    /\ \E input \in Documents :
         /\ Reader(input).ok
         /\ replay = [on |-> TRUE, input |-> input, events |-> Reader(input).events]

(* writer.write_event(&event).unwrap() *)
ReplayEvent ==
    /\ phase = "live"
    /\ last.res = "Ok"
    /\ replay.events # <<>>
    /\ Invoke("write_event", Head(replay.events),
              LAMBDA m : write_event(m, Head(replay.events)))
    /\ replay' = [replay EXCEPT !.events = Tail(@)]

(* writer.finish().unwrap() *)
FinishReplay ==
    /\ phase = "live"
    /\ last.res = "Ok"
    /\ replay.events = <<>>
    /\ Call("finish", <<>>, finish)

NextRoundTrip == ReplayEvent \/ FinishReplay

Step(In, bound) ==
    \/ WriteStart(In, bound)
    \/ WriteEmpty(In, bound)
    \/ WriteRawAttribute(In, bound)
    \/ WriteAttribute(In, bound)
    \/ WriteEnd(In, bound)
    \/ WriteRawText(In, bound)
    \/ WriteText(In, bound)
    \/ WriteCData(In, bound)
    \/ WriteRawComment(In, bound)
    \/ WriteComment(In, bound)
    \/ WriteEvent(In, bound)
    \/ Flush(bound)
    \/ Finish

Next == Step(CoreInputs, MaxCalls)

NextVal == Step(ValInputs, MaxValCalls)

NextIo == Step(CoreInputs, MaxIoCalls)

NextDeep == Step(CoreInputs, MaxDeepCalls)

(* Any sequence of calls, on a sink that never fails. *)
Spec == Init /\ [][Next]_vars

(* The same, with arguments chosen to pass and to fail every validation. *)
SpecVal == Init /\ [][NextVal]_vars

(* Any sequence of calls, on a sink that may fail any operation. *)
SpecIo == InitIo /\ [][NextIo]_vars

(* Any sequence of calls on a writer that is already deeply nested. *)
SpecDeep == InitDeep /\ [][NextDeep]_vars

(* The round trip of every input the Reader accepts. *)
SpecRoundTrip == InitRoundTrip /\ [][NextRoundTrip]_vars

----------------------------------------------------------------------------
(* Properties. *)

AttrBytes(name, quote, value) ==
    <<" ">> \o name \o <<"=", QuoteByte(quote)>> \o value \o <<QuoteByte(quote)>>

(* The bytes an attribute call is to append. *)
LastAttrBytes ==
    IF last.op = "write_attribute"
    THEN AttrBytes(last.arg.name, "Double", content_escape(last.arg.value))
    ELSE AttrBytes(last.arg.name, last.arg.quote, last.arg.value)

ValidAttrArgs ==
    /\ ~AnyByte(last.arg.name, is_invalid_attribute_name)
    /\ last.op = "write_raw_attribute" =>
         ~AnyByte(last.arg.value, LAMBDA b : b \in {NUL, QuoteByte(last.arg.quote)})

(* C1: an attribute write with a valid name and value fails with           *)
(* AttributeOutsideTag exactly when the tag-open flag is clear, and then   *)
(* writes nothing; when the flag is set it succeeds, keeps the flag set,   *)
(* and appends ` name=<quote>value<quote>` to a tag that was started and   *)
(* is still not terminated.                                                *)
C1_AttributeContext ==
    (last.op \in AttrOps /\ ValidAttrArgs) =>
        /\ (last.res = "AttributeOutsideTag") <=> ~TagOpen(pre.daf)
        /\ ~TagOpen(pre.daf) =>
             /\ out = pre.out
             /\ depth_and_flags = pre.daf
        /\ TagOpen(pre.daf) =>
             /\ last.res = "Ok"
             /\ TagOpen(depth_and_flags)
             /\ out = pre.out \o LastAttrBytes
             /\ pre.kind # "none"
             /\ pendingKind = pre.kind

C1_Witness ==
    /\ last.op = "write_attribute"
    /\ last.res = "Ok"
    /\ pre.kind = "start"
    /\ Len(out) > Len(pre.out)

Closure(kind) ==
    IF kind = "empty" THEN <<"/", ">">>
    ELSE IF kind = "start" THEN <<">">>
    ELSE <<>>

Qualified(prefix, name) ==
    IF prefix.some THEN prefix.val \o <<":">> \o name ELSE name

RECURSIVE EventAttrBytes(_)
EventAttrBytes(attrs) ==
    IF attrs = <<>> THEN <<>>
    ELSE AttrBytes(Head(attrs).name, Head(attrs).quote, Head(attrs).raw_value)
         \o EventAttrBytes(Tail(attrs))

(* The bytes of the last call's own construct, its arguments being valid. *)
Body ==
    CASE last.op \in {"write_start", "write_empty"} ->
           <<"<">> \o Qualified(last.arg.prefix, last.arg.name)
      [] last.op = "write_end" ->
           <<"<", "/">> \o Qualified(last.arg.prefix, last.arg.name) \o <<">">>
      [] last.op = "write_raw_text" -> last.arg
      [] last.op = "write_text" -> content_escape(last.arg)
      [] last.op = "write_cdata" ->
           <<"<", "!", "[", "C", "D", "A", "T", "A", "[">> \o last.arg
           \o <<"]", "]", ">">>
      [] last.op = "write_raw_comment" ->
           <<"<", "!", "-", "-">> \o last.arg \o <<"-", "-", ">">>
      [] last.op = "write_comment" ->
           <<"<", "!", "-", "-">> \o comment_escape(last.arg) \o <<"-", "-", ">">>
      [] last.op = "write_event" ->
           IF last.arg.kind \in {"Start", "Empty"}
           THEN <<"<">> \o Qualified(last.arg.prefix, last.arg.name)
                \o EventAttrBytes(last.arg.attrs)
           ELSE IF last.arg.kind = "End"
           THEN <<"<", "/">> \o Qualified(last.arg.prefix, last.arg.name) \o <<">">>
           ELSE last.arg.text
      [] OTHER -> <<>>

OmittedComment == last.op \in CommentOps /\ omit_comments

(* C3: on a sink that does not fail, a call that succeeds and is neither   *)
(* an attribute write nor an omitted comment first terminates the pending  *)
(* tag, with `/>` if write_empty started it and `>` if write_start did,    *)
(* and with nothing if no tag is pending, and then writes its own bytes;   *)
(* attribute writes and omitted comments write no terminator; after flush  *)
(* or finish no tag is pending.                                            *)
C3_TerminatedOnce ==
    /\ (last.res = "Ok" /\ last.op \notin AttrOps /\ ~OmittedComment
        /\ last.op # "new") =>
           out = pre.out \o Closure(pre.kind) \o Body
    /\ (last.res = "Ok" /\ last.op \in AttrOps) =>
           out = pre.out \o LastAttrBytes
    /\ (last.res = "Ok" /\ OmittedComment) => out = pre.out
    /\ (last.res = "Ok" /\ last.op \in {"flush", "finish"}) =>
           ~TagOpen(depth_and_flags)

C3_Witness ==
    /\ last.op = "finish"
    /\ last.res = "Ok"
    /\ pre.kind = "empty"
    /\ nStart > 0

(* C4: as long as no write_end was issued with no element open, whenever   *)
(* no tag is pending the depth is the number of successful write_start     *)
(* calls minus the number of successful write_end calls, and a tag started *)
(* by write_empty changes the depth neither when it is started nor when it *)
(* is terminated.                                                          *)
C4_DepthCountsStarts ==
    (~endAtZero /\ phase # "panicked") =>
        /\ ~TagOpen(depth_and_flags) => Depth(depth_and_flags) = nStart - nEnd
        /\ (last.res = "Ok" /\ StartKind(last.op, last.arg) = "empty") =>
             Depth(depth_and_flags) = Depth(pre.daf) + (IF pre.kind = "start" THEN 1 ELSE 0)
        /\ (last.res = "Ok" /\ pre.kind = "empty" /\ pendingKind = "none"
            /\ ~IsEnd(last.op, last.arg)) =>
             Depth(depth_and_flags) = Depth(pre.daf)

(* C5: a call that returns a validation error appends no byte and leaves  *)
(* the flags and the depth as they were; a tag that was pending before it  *)
(* still takes an attribute afterwards.                                    *)
C5_ValidationLeavesState ==
    /\ [][last'.res \in ValidationErrors =>
            /\ out' = out
            /\ depth_and_flags' = depth_and_flags]_vars
    /\ [][(/\ last.res \in ValidationErrors
           /\ TagOpen(pre.daf)
           /\ last'.op \in AttrOps
           /\ ValidAttrArgs') =>
              /\ last'.res = "Ok"
              /\ out' = out \o LastAttrBytes']_vars

C5_Witness ==
    /\ last.op = "write_start"
    /\ last.res = "InvalidElementName"
    /\ pre.kind = "start"
    /\ TagOpen(depth_and_flags)

(* C6: write_raw_attribute, called while a tag is open and with a valid    *)
(* name, returns InvalidAttributeValue and writes nothing when the value   *)
(* contains a NUL byte or the chosen quote byte.                           *)
C6_RawAttributeValueChecked ==
    (/\ last.op = "write_raw_attribute"
     /\ TagOpen(pre.daf)
     /\ ~AnyByte(last.arg.name, is_invalid_attribute_name)
     /\ AnyByte(last.arg.value, LAMBDA b : b \in {NUL, QuoteByte(last.arg.quote)})) =>
        /\ last.res = "InvalidAttributeValue"
        /\ out = pre.out

(* The XML name grammar: a name-start byte, then name bytes. *)
NameStartBytes == {"a", "b", "c", "d", "p", "t", "v", "x", "_"}

Letters == {"a", "b", "c", "d", "p", "t", "v", "x"}

XmlName(name) ==
    /\ name # <<>>
    /\ name[1] \in NameStartBytes
    /\ \A i \in DOMAIN name : name[i] \in NameBytes

(* C7: write_start(None, name) fails with InvalidElementName, writing      *)
(* nothing, when name is empty, starts with a digit or holds a byte        *)
(* outside the name grammar, and succeeds when name is ASCII letters only. *)
C7_ElementNameValidated ==
    (last.op = "write_start" /\ ~last.arg.prefix.some) =>
        /\ ~XmlName(last.arg.name) =>
             /\ last.res = "InvalidElementName"
             /\ out = pre.out
        /\ (last.arg.name # <<>> /\ \A i \in DOMAIN last.arg.name :
                                      last.arg.name[i] \in Letters) =>
             last.res = "Ok"

(* C9: with omit_comments set, in every state, write_comment and a         *)
(* write_raw_comment whose text has no `-->` succeed and append nothing,   *)
(* and a write_raw_comment whose text has `-->` fails with                 *)
(* ImproperlyEscaped.                                                      *)
C9_OmittedCommentsWriteNothing ==
    (omit_comments /\ last.op \in CommentOps) =>
        IF last.op = "write_raw_comment" /\ Contains(last.arg, <<"-", "-", ">">>)
        THEN last.res = "ImproperlyEscaped"
        ELSE last.res = "Ok" /\ out = pre.out

C9_Witness ==
    /\ omit_comments
    /\ last.op = "write_raw_comment"
    /\ last.res = "Ok"
    /\ pre.kind = "empty"

Delta == SubSeq(out, Len(pre.out) + 1, Len(out))

EndsWith(s, t) ==
    Len(t) <= Len(s) /\ SubSeq(s, Len(s) - Len(t) + 1, Len(s)) = t

RawOps == {"write_raw_text", "write_cdata", "write_raw_comment"}

(* C10 as stated: write_raw_text fails with ImproperlyEscaped when the     *)
(* text has `<`, write_cdata fails with InvalidCData iff it has `]]>`,     *)
(* write_raw_comment fails with ImproperlyEscaped iff it has `-->`, and an *)
(* accepted text is written byte for byte within its construct's           *)
(* delimiters.                                                             *)
C10_Original ==
    /\ (last.op = "write_raw_text" /\ Contains(last.arg, <<"<">>)) =>
         last.res = "ImproperlyEscaped"
    /\ last.op = "write_cdata" =>
         (last.res = "InvalidCData" <=> Contains(last.arg, <<"]", "]", ">">>))
    /\ last.op = "write_raw_comment" =>
         (last.res = "ImproperlyEscaped" <=> Contains(last.arg, <<"-", "-", ">">>))
    /\ (last.op \in RawOps /\ last.res = "Ok") =>
         (EndsWith(Delta, Body) /\ Len(Delta) >= Len(Body) /\ Body # <<>>)

(* C10 as amended: write_raw_text fails with ImproperlyEscaped when the    *)
(* text has a `<` with no NUL byte before it; an accepted comment is       *)
(* written only when omit_comments is clear.                               *)
C10_RawContentChecked ==
    /\ (last.op = "write_raw_text" /\ Contains(last.arg, <<"<">>)
        /\ ~Contains(SubSeq(last.arg, 1, memchr2("<", "<", last.arg)), <<NUL>>)) =>
         (last.res = "ImproperlyEscaped" /\ out = pre.out)
    /\ last.op = "write_cdata" =>
         (last.res = "InvalidCData" <=> Contains(last.arg, <<"]", "]", ">">>))
    /\ last.op = "write_raw_comment" =>
         (last.res = "ImproperlyEscaped" <=> Contains(last.arg, <<"-", "-", ">">>))
    /\ (last.op \in RawOps /\ last.res \in ValidationErrors) => out = pre.out
    /\ (last.op \in RawOps /\ last.res = "Ok") =>
         IF OmittedComment THEN out = pre.out
         ELSE out = pre.out \o Closure(pre.kind) \o Body

C10_Witness ==
    /\ last.op = "write_raw_text"
    /\ last.arg = <<"<", NUL>>
    /\ last.res = "ImproperlyEscaped"
    /\ pre.kind = "start"

RoundTripDone ==
    replay.on /\ phase = "finished" /\ last.op = "finish" /\ last.res = "Ok"

PlainInput(input) ==
    \A i \in DOMAIN Reader(input).events : Reader(input).events[i].plain

C11_NulRejected ==
    /\ (/\ last.op = "write_raw_text"
        /\ Contains(last.arg, <<NUL>>)
        /\ ~Contains(last.arg, <<"<">>)) =>
           (last.res = "InvalidValue" /\ out = pre.out)
    /\ (/\ last.op = "write_raw_comment"
        /\ Contains(last.arg, <<NUL>>)
        /\ ~Contains(last.arg, <<"-", "-", ">">>)) =>
           (last.res = "InvalidValue" /\ out = pre.out)
    /\ (/\ last.op = "write_raw_text"
        /\ Contains(last.arg, <<NUL>>)
        /\ Contains(last.arg, <<"<">>)) =>
           /\ last.res = (IF last.arg[memchr2(NUL, "<", last.arg)] = "<"
                          THEN "ImproperlyEscaped" ELSE "InvalidValue")
           /\ out = pre.out

BadPrefix == last.arg.prefix.some /\ AnyByte(last.arg.prefix.val, is_invalid_name)

BadName == AnyByte(last.arg.name, is_invalid_name)

TextLike == {"Text", "CData", "Comment", "Doctype"}

(* C13: write_event of a Text, CData, Comment or Doctype event terminates  *)
(* the pending tag and appends the payload as it is, whatever it holds and *)
(* whatever omit_comments says, and returns no validation error;           *)
(* write_event of a Start or Empty event does what write_start or          *)
(* write_empty does and then appends every attribute in order as           *)
(* ` name=<quote>raw_value<quote>`, unexamined, and leaves the tag pending. *)
C13_EventsWrittenRaw ==
    last.op = "write_event" =>
        /\ last.arg.kind \in TextLike =>
             /\ last.res = "Ok"
             /\ out = pre.out \o Closure(pre.kind) \o last.arg.text
             /\ ~TagOpen(depth_and_flags)
        /\ (last.arg.kind \in {"Start", "Empty"}
            /\ (BadName \/ (~last.arg.is_empty /\ BadPrefix))) =>
             /\ last.res = (IF ~last.arg.is_empty /\ BadPrefix
                            THEN "InvalidElementPrefix" ELSE "InvalidElementName")
             /\ out = pre.out
             /\ depth_and_flags = pre.daf
        /\ (last.arg.kind \in {"Start", "Empty"}
            /\ ~(BadName \/ (~last.arg.is_empty /\ BadPrefix))) =>
             /\ last.res = "Ok"
             /\ out = pre.out \o Closure(pre.kind) \o <<"<">>
                      \o Qualified(last.arg.prefix, last.arg.name)
                      \o EventAttrBytes(last.arg.attrs)
             /\ TagOpen(depth_and_flags)
             /\ in_empty_tag(depth_and_flags) <=> last.arg.is_empty
             /\ pendingKind = (IF last.arg.is_empty THEN "empty" ELSE "start")

C13_Witness ==
    /\ last.op = "write_event"
    /\ last.arg.kind = "Text"
    /\ Contains(last.arg.text, <<"<">>)
    /\ last.res = "Ok"
    /\ pre.kind = "empty"
    /\ Len(pre.out) > Len("<p:b")
    /\ omit_comments

(* The bytes the last call wrote after the pending tag's terminator. *)
AfterClosure ==
    SubSeq(out, Len(pre.out) + Len(Closure(pre.kind)) + 1, Len(out))

(* C14 as stated: the bytes write_text appends hold neither `<` nor a NUL  *)
(* byte, so write_raw_text would have accepted them.                       *)
C14_Original ==
    (last.op = "write_text" /\ last.res = "Ok") =>
        memchr2(NUL, "<", AfterClosure) = 0

(* C14 as amended: the bytes write_text appends hold no `<`, and hold a    *)
(* NUL byte exactly when the content does; for a content free of NUL       *)
(* write_raw_text would have accepted them.                                *)
C14_EscapedTextHasNoLt ==
    (last.op = "write_text" /\ last.res = "Ok") =>
        /\ out = pre.out \o Closure(pre.kind) \o AfterClosure
        /\ ~Contains(AfterClosure, <<"<">>)
        /\ Contains(AfterClosure, <<NUL>>) <=> Contains(last.arg, <<NUL>>)
        /\ ~Contains(last.arg, <<NUL>>) => memchr2(NUL, "<", AfterClosure) = 0

C14_Witness ==
    /\ last.op = "write_text"
    /\ last.res = "Ok"
    /\ Contains(last.arg, <<"<">>)
    /\ pre.kind = "start"
    /\ Contains(AfterClosure, <<"&", "l", "t", ";">>)

(* C15: a flush that succeeds has written the pending tag's terminator     *)
(* before the sink's flush was invoked and leaves the tag-open flag clear; *)
(* an attribute write issued right after it fails with                     *)
(* AttributeOutsideTag and writes nothing.                                 *)
C15_FlushClosesFirst ==
    /\ []((last.op = "flush" /\ last.res = "Ok") =>
            /\ out = pre.out \o Closure(pre.kind)
            /\ flushed_len = Len(out)
            /\ ~TagOpen(depth_and_flags))
    /\ [][(last.op = "flush" /\ last.res = "Ok" /\ last'.op \in AttrOps) =>
            /\ last'.res = "AttributeOutsideTag"
            /\ out' = out]_vars

C15_Witness ==
    /\ last.op = "flush"
    /\ last.res = "Ok"
    /\ pre.kind = "empty"
    /\ TagOpen(pre.daf)
    /\ flushed_len = Len(pre.out) + 2

(* C16: whatever the depth n reached by n terminated write_start calls, a  *)
(* call that terminates one more start tag completes and leaves the depth  *)
(* at n + 1, with the flag bits those of the call: the arithmetic on       *)
(* depth_and_flags neither overflows nor wraps.                            *)
C16_DepthUnbounded ==
    (/\ pre.kind = "start"
     /\ TagOpen(pre.daf)
     /\ nEnd = 0
     /\ last.op \notin AttrOps \cup {"new"}
     /\ ~OmittedComment
     /\ ~IsEnd(last.op, last.arg)
     /\ last.res \notin ValidationErrors) =>
        /\ last.res = "Ok"
        /\ Depth(depth_and_flags) = Depth(pre.daf) + 1
        /\ TagOpen(depth_and_flags) <=> StartKind(last.op, last.arg) # "none"
        /\ in_empty_tag(depth_and_flags) <=> StartKind(last.op, last.arg) = "empty"

(* C17: in every reachable state, failed calls, sink failures and a        *)
(* wrapped depth included, the empty-tag flag is set only if the tag-open  *)
(* flag is: the two low bits of depth_and_flags are 00, 01 or 11.          *)
C17_EmptyFlagImpliesOpen ==
    /\ in_empty_tag(depth_and_flags) => TagOpen(depth_and_flags)
    /\ depth_and_flags.lo \in {0, 1, 3}

C17_Witness ==
    /\ build = "release"
    /\ Depth(depth_and_flags) = DepthMod - 1
    /\ last.op = "write_empty"
    /\ last.res = "Io"
    /\ in_empty_tag(depth_and_flags)
    /\ ~in_empty_tag(pre.daf)

(* The terminator the flags of daf call for. *)
FlagClosure(daf) ==
    IF ~TagOpen(daf) THEN <<>>
    ELSE IF in_empty_tag(daf) THEN <<"/", ">">> ELSE <<">">>

(* The last call got as far as ensure_tag_closed. *)
ClosesFirst ==
    /\ last.op \notin AttrOps \cup {"new"}
    /\ ~OmittedComment
    /\ last.res \notin ValidationErrors

(* The sink failed the write of the pending tag's terminator. *)
ClosureFailed ==
    ClosesFirst /\ TagOpen(pre.daf) /\ last.res = "Io" /\ last.ops = 1

(* The sink failed write_start / write_empty at `<`, the prefix or the name. *)
PartialStart ==
    /\ last.op \in {"write_start", "write_empty"}
    /\ last.res = "Io"
    /\ last.ops > (IF TagOpen(pre.daf) THEN 1 ELSE 0)

(* C18: when the sink fails the write of a pending tag's terminator the    *)
(* flags and the depth stay as they were; when it fails anywhere inside    *)
(* write_end the depth is not decremented; when it fails write_start or    *)
(* write_empty at `<`, the prefix or the name, the tag-open flag is set    *)
(* all the same, and the next call that terminates a pending tag writes a  *)
(* terminator for this tag whose start was not written in full.            *)
C18_StateUpdateOrder ==
    /\ [](ClosureFailed => (depth_and_flags = pre.daf /\ out = pre.out))
    /\ []((IsEnd(last.op, last.arg) /\ last.res = "Io") =>
            /\ Depth(depth_and_flags) =
                 (Depth(pre.daf) + (IF TagOpen(pre.daf) /\ last.ops > 1 THEN 1 ELSE 0))
                 % DepthMod
            /\ ~TagOpen(depth_and_flags) <=> ~ClosureFailed)
    /\ [](PartialStart =>
            /\ TagOpen(depth_and_flags)
            /\ in_empty_tag(depth_and_flags) <=> (last.op = "write_empty")
            /\ Len(out) < Len(pre.out) + Len(FlagClosure(pre.daf)) + Len(Body))
    /\ [][(PartialStart /\ ClosesFirst' /\ last'.res = "Ok") =>
            /\ pendingKind = pre.kind
            /\ Len(out') >= Len(out) + Len(FlagClosure(depth_and_flags))
            /\ SubSeq(out', 1, Len(out) + Len(FlagClosure(depth_and_flags)))
                 = out \o FlagClosure(depth_and_flags)]_vars

C18_Witness ==
    /\ last.op = "write_raw_text"
    /\ last.res = "Ok"
    /\ TagOpen(pre.daf)
    /\ pre.kind = "none"
    /\ out = <<">", "t">>

====
